---- MODULE Spec2Model ----
(***************************************************************************)
(* A model of the incremental rendering runtime of src/src/App.js (lines   *)
(* 450-810: createElement, the work loop, the reconciler, the committer    *)
(* and the stateful-slot runtime useState / useEffect).                    *)
(*                                                                         *)
(* Heap objects (work nodes, slots, host nodes) live in sequences and are  *)
(* addressed by their index; 0 stands for null / undefined.  A handler of  *)
(* the program is an operator from an engine record to an engine record,   *)
(* and an action applies one handler to the current engine.                *)
(*                                                                         *)
(* Two applications of the repository are modelled beside it: the media    *)
(* list of src/unnamed/part_000 (variable media) and the keyboard review   *)
(* of src/app.js (variable review).  Their handlers are operators from an  *)
(* application state to an application state.                              *)
(***************************************************************************)
EXTENDS Integers, Sequences, FiniteSets, TLC

\* ------------------------------------------------------------------ bounds
\* How many requests (render calls and updater calls) one behaviour may make.
MaxRequests == 3
\* How many units of work one slice of the work loop may process at most.
MaxSlice == 2
\* How many increments the counter scenario may make after mounting.
MaxIncrements == 4
\* How many child arguments a call of createElement is given at most.
MaxChildren == 2
\* How many times the review application may be given files.
MaxLoads == 2

\* ------------------------------------------------------------------ values
\* null / undefined reference
Null == 0
\* a key that is not in a props object (reading it yields undefined)
Absent == -1

TEXT_ELEMENT == "TEXT_ELEMENT"
Fragment == "Fragment"
\* the type of a root work node: the code leaves it undefined
RootType == "ROOT"
\* a null entry of a children list
NullType == "NULL"

PropKeys == {"value", "nodeValue", "onClick", "style"}
NoProps == [k \in PropKeys |-> Absent]
Props(k, v) == [NoProps EXCEPT ![k] = v]

NullElement == [type |-> NullType, props |-> NoProps, children |-> <<>>]
\* an array left in a children list: it has no type and no props
ArrayType == "ARRAY"
ArrayElement == [type |-> ArrayType, props |-> NoProps, children |-> <<>>]
\* the empty string
EmptyText == -2

\* raw children as they are handed to createElement
Prim(v) == [k |-> "prim", v |-> v, node |-> NullElement, items |-> <<>>]
NullChild == [k |-> "null", v |-> Absent, node |-> NullElement, items |-> <<>>]
Node(e) == [k |-> "node", v |-> Absent, node |-> e, items |-> <<>>]
Undefined == [k |-> "undefined", v |-> Absent, node |-> NullElement, items |-> <<>>]
List(items) == [k |-> "list", v |-> Absent, node |-> NullElement, items |-> items]

createTextElement(text) ==
  [type |-> TEXT_ELEMENT, props |-> Props("nodeValue", text), children |-> <<>>]

\* (children || []).flat(): one level of nesting is flattened
RECURSIVE flat(_)
flat(children) ==
  IF children = <<>> THEN <<>>
  ELSE LET c == Head(children)
       IN (IF c.k = "list" THEN c.items ELSE <<c>>) \o flat(Tail(children))

\* typeof child === 'object' ? child : createTextElement(child == null ? '' : child)
normalizeChild(c) ==
  CASE c.k = "node" -> c.node
    [] c.k = "null" -> NullElement
    [] c.k = "list" -> ArrayElement
    [] c.k = "undefined" -> createTextElement(EmptyText)
    [] OTHER -> createTextElement(c.v)

createElement(type, props, children) ==
  LET f == flat(children)
  IN [type |-> type, props |-> props,
      children |-> [i \in 1..Len(f) |-> normalizeChild(f[i])]]

\* h(type, props, child elements...)
h(type, props, kids) == createElement(type, props, [i \in 1..Len(kids) |-> Node(kids[i])])

\* ------------------------------------------------------------- heap objects
\* a work node (fiber)
Fiber(type, props, children, dom, parent, alternate, effectTag) ==
  [type |-> type, props |-> props, children |-> children, dom |-> dom,
   parent |-> parent, child |-> Null, sibling |-> Null, alternate |-> alternate,
   effectTag |-> effectTag, hooks |-> <<>>]

\* a host node: the mount target or a node made by createDom
HostNode(tag) ==
  [tag |-> tag, attrs |-> NoProps, listeners |-> {}, children |-> <<>>, parent |-> Null]

\* the two mount targets a render request may name
Container == 1
Container2 == 2

\* one recorded event of a commit: a host operation or a callback invocation
Ev(op, n, key, v) == [op |-> op, n |-> n, key |-> key, v |-> v]

\* the slots whose effect callbacks are counted: component type and slot index
FunctionTypes == {"Counter", "Once", "Pair", "Btn", "Wrap", "First", "Echo", "Boot", "Empty"}
Sites == FunctionTypes \X (0..2)

\* the engine: the module-level state of the runtime, its heap, and the
\* observations made of it (log: the events of the latest commit; effectCalls:
\* invocations of effect callbacks per site; cleanupCalls: invocations per
\* cleanup closure; halted: the work loop threw and was not scheduled again;
\* closures: listener closures made so far; commits: completed commits; batch:
\* the updater calls made since the latest completed commit; lastBatch: those
\* made between the two latest completed commits; before: the slots as they
\* were when the latest commit began)
\* App.js:542-548
InitEngine ==
  [fibers |-> <<>>, hooks |-> <<>>,
   doms |-> <<HostNode("root"), HostNode("root2")>>,
   nextUnitOfWork |-> Null, wipRoot |-> Null, currentRoot |-> Null,
   deletions |-> <<>>, wipFiber |-> Null, hookIndex |-> 0,
   pendingEffects |-> <<>>,
   err |-> FALSE, halted |-> FALSE,
   log |-> <<>>, effectCalls |-> [s \in Sites |-> 0], cleanupCalls |-> <<>>,
   closures |-> 0, commits |-> 0, batch |-> <<>>, lastBatch |-> <<>>,
   before |-> <<>>]

Throw(st) == [st EXCEPT !.err = TRUE]

\* ------------------------------------------------------------ host adapter
isEvent(key) == key = "onClick"
isProperty(key) == key # "children" /\ key # "style" /\ key # "key" /\ ~isEvent(key)
isNewAlways(prev, next, key) == TRUE
isNew(prev, next, key) == prev[key] # next[key]
isGone(prev, next, key) == next[key] = Absent
\* Object.keys(props), in a fixed order
KeyOrder == <<"value", "nodeValue", "onClick", "style">>
Keys(props) == SelectSeq(KeyOrder, LAMBDA k : props[k] # Absent)

\* dom.removeEventListener / dom.addEventListener / clearing and setting a
\* property, each recorded in the log
removeListener(st, dom, key, fn) ==
  [st EXCEPT !.doms[dom].listeners = @ \ {fn},
             !.log = Append(@, Ev("detach", dom, key, fn))]
addListener(st, dom, key, fn) ==
  [st EXCEPT !.doms[dom].listeners = @ \cup {fn},
             !.log = Append(@, Ev("attach", dom, key, fn))]
clearAttr(st, dom, key) ==
  [st EXCEPT !.doms[dom].attrs[key] = Absent,
             !.log = Append(@, Ev("clear", dom, key, Absent))]
setAttr(st, dom, key, value) ==
  [st EXCEPT !.doms[dom].attrs[key] = value,
             !.log = Append(@, Ev("set", dom, key, value))]

RECURSIVE forEachKey(_, _, _, _, _, _)
forEachKey(st, dom, keys, prev, next, phase) ==
  IF keys = <<>> THEN st
  ELSE LET k == Head(keys)
           st1 == CASE phase = 1 -> removeListener(st, dom, k, prev[k])
                    [] phase = 2 -> clearAttr(st, dom, k)
                    [] phase = 3 -> setAttr(st, dom, k, next[k])
                    [] OTHER -> addListener(st, dom, k, next[k])
       IN forEachKey(st1, dom, Tail(keys), prev, next, phase)

updateDom(st, dom, prevProps, nextProps) ==
  LET gone == SelectSeq(Keys(prevProps), LAMBDA k :
                isEvent(k) /\ (nextProps[k] = Absent \/ isNew(prevProps, nextProps, k)))
      cleared == SelectSeq(Keys(prevProps), LAMBDA k :
                isProperty(k) /\ isGone(prevProps, nextProps, k))
      set == SelectSeq(Keys(nextProps), LAMBDA k :
                isProperty(k) /\ isNew(prevProps, nextProps, k))
      added == SelectSeq(Keys(nextProps), LAMBDA k :
                isEvent(k) /\ isNew(prevProps, nextProps, k))
      s1 == forEachKey(st, dom, gone, prevProps, nextProps, 1)
      s2 == forEachKey(s1, dom, cleared, prevProps, nextProps, 2)
      s3 == forEachKey(s2, dom, set, prevProps, nextProps, 3)
  IN forEachKey(s3, dom, added, prevProps, nextProps, 4)

\* document.createTextNode('') / document.createElement(type), then
\* updateDom(dom, {}, fiber.props); the node is not attached, and what is done
\* to it is no event of a commit.  Yields the engine and the new host node.
createDom(st, fiber) ==
  LET id == Len(st.doms) + 1
      s1 == [st EXCEPT !.doms = Append(@, HostNode(st.fibers[fiber].type))]
      s2 == updateDom(s1, id, NoProps, st.fibers[fiber].props)
  IN [st |-> [s2 EXCEPT !.log = st.log], dom |-> id]

RemoveFromSeq(seq, x) == SelectSeq(seq, LAMBDA y : y # x)

\* parent.appendChild(child): a node that has a parent is moved
appendChild(st, parent, child) ==
  LET old == st.doms[child].parent
      s1 == IF old = Null THEN st
            ELSE [st EXCEPT !.doms[old].children = RemoveFromSeq(@, child)]
  IN [s1 EXCEPT !.doms[parent].children = Append(@, child),
                !.doms[child].parent = parent,
                !.log = Append(@, Ev("append", parent, "", child))]

\* parent.removeChild(child): throws when child is no child of parent
removeChild(st, parent, child) ==
  IF st.doms[child].parent # parent THEN Throw(st)
  ELSE [st EXCEPT !.doms[parent].children = RemoveFromSeq(@, child),
                  !.doms[child].parent = Null,
                  !.log = Append(@, Ev("remove", parent, "", child))]

\* -------------------------------------------------------------- reconciler
\* elements[index]: undefined past the end; a null entry is as falsy
elementAt(elements, index) ==
  IF index < Len(elements) THEN elements[index + 1] ELSE NullElement

\* an UPDATE that keeps the attributes of the old work node
createFiberOldProps(st, wipFiberNode, oldFiber, element, sameType) ==
  IF sameType
  THEN [st EXCEPT !.fibers = Append(@,
          Fiber(st.fibers[oldFiber].type, st.fibers[oldFiber].props, element.children,
                st.fibers[oldFiber].dom, wipFiberNode, oldFiber, "UPDATE"))]
  ELSE IF element.type # NullType
  THEN [st EXCEPT !.fibers = Append(@,
          Fiber(element.type, element.props, element.children,
                Null, wipFiberNode, Null, "PLACEMENT"))]
  ELSE st

\* the new work node of one position: an UPDATE of the old one when the kinds
\* agree, a PLACEMENT when there is an element of another kind, else none
createFiber(st, wipFiberNode, oldFiber, element, sameType) ==
  IF sameType
  THEN [st EXCEPT !.fibers = Append(@,
          Fiber(st.fibers[oldFiber].type, element.props, element.children,
                st.fibers[oldFiber].dom, wipFiberNode, oldFiber, "UPDATE"))]
  ELSE IF element.type # NullType
  THEN [st EXCEPT !.fibers = Append(@,
          Fiber(element.type, element.props, element.children,
                Null, wipFiberNode, Null, "PLACEMENT"))]
  ELSE st

\* an old work node without counterpart that is listed twice
markDeletionTwice(st, oldFiber, sameType) ==
  IF oldFiber # Null /\ ~sameType
  THEN [st EXCEPT !.fibers[oldFiber].effectTag = "DELETION",
                  !.deletions = Append(Append(@, oldFiber), oldFiber)]
  ELSE st

\* an old work node without counterpart that is tagged but not listed
markDeletionUnlisted(st, oldFiber, sameType) ==
  IF oldFiber # Null /\ ~sameType
  THEN [st EXCEPT !.fibers[oldFiber].effectTag = "DELETION"]
  ELSE st

\* if (oldFiber && !sameType): the old work node is tagged and listed
markDeletion(st, oldFiber, sameType) ==
  IF oldFiber # Null /\ ~sameType
  THEN [st EXCEPT !.fibers[oldFiber].effectTag = "DELETION",
                  !.deletions = Append(@, oldFiber)]
  ELSE st

\* if (newFiber): the new work node is linked as first child or next sibling
linkFiber(st, wipFiberNode, index, prevSibling, newFiber) ==
  IF newFiber = Null THEN st
  ELSE IF index = 0 THEN [st EXCEPT !.fibers[wipFiberNode].child = newFiber]
  ELSE IF prevSibling = Null THEN Throw(st)
  ELSE [st EXCEPT !.fibers[prevSibling].sibling = newFiber]

\* One turn of the while loop of reconcileChildren, then the rest of the loop.
\* index counts from 0 as in the code.
RECURSIVE reconcileLoop(_, _, _, _, _, _)
reconcileStep(st, wipFiberNode, elements, index, oldFiber, prevSibling, element, sameType, newFiber) ==
  reconcileLoop(
    linkFiber(markDeletion(createFiber(st, wipFiberNode, oldFiber, element, sameType),
                           oldFiber, sameType),
              wipFiberNode, index, prevSibling, newFiber),
    wipFiberNode, elements, index + 1,
    IF oldFiber # Null THEN st.fibers[oldFiber].sibling ELSE Null,
    IF newFiber = Null THEN prevSibling ELSE newFiber)

\* a reconciler that never takes two kinds for the same
reconcileElementAnew(st, wipFiberNode, elements, index, oldFiber, prevSibling, element) ==
  reconcileStep(st, wipFiberNode, elements, index, oldFiber, prevSibling, element,
                FALSE,
                IF element.type # NullType THEN Len(st.fibers) + 1 ELSE Null)

reconcileElement(st, wipFiberNode, elements, index, oldFiber, prevSibling, element) ==
  reconcileStep(st, wipFiberNode, elements, index, oldFiber, prevSibling, element,
                oldFiber # Null /\ element.type # NullType
                  /\ element.type = st.fibers[oldFiber].type,
                IF element.type # NullType THEN Len(st.fibers) + 1 ELSE Null)

reconcileLoop(st, wipFiberNode, elements, index, oldFiber, prevSibling) ==
  IF st.err \/ ~(index < Len(elements) \/ oldFiber # Null) THEN st
  ELSE reconcileElement(st, wipFiberNode, elements, index, oldFiber, prevSibling,
                        elementAt(elements, index))

\* wipFiberNode.alternate && wipFiberNode.alternate.child
oldChildOf(st, wipFiberNode) ==
  IF st.fibers[wipFiberNode].alternate # Null
  THEN st.fibers[st.fibers[wipFiberNode].alternate].child ELSE Null

reconcileChildren(st, wipFiberNode, elements) ==
  reconcileLoop(st, wipFiberNode, elements, 0, oldChildOf(st, wipFiberNode), Null)

\* ---------------------------------------------------- stateful-slot runtime
\* an update handed to an updater: a replacement value, or a function of the
\* previous value (fn 1: x + 1, fn 2: 2 * x)
Val(v) == [kind |-> "val", v |-> v]
Fn(n) == [kind |-> "fn", v |-> n]
applyAction(action, state) ==
  IF action.kind = "fn"
  THEN (IF action.v = 1 THEN state + 1 ELSE 2 * state)
  ELSE action.v

\* a queue applied last update first
RECURSIVE applyQueueReversed(_, _)
applyQueueReversed(actions, state) ==
  IF actions = <<>> THEN state
  ELSE applyAction(Head(actions), applyQueueReversed(Tail(actions), state))

\* actions.forEach(action => hook.state = ...)
RECURSIVE applyQueue(_, _)
applyQueue(actions, state) ==
  IF actions = <<>> THEN state
  ELSE applyQueue(Tail(actions), applyAction(Head(actions), state))

NoDeps == [given |-> FALSE, vals |-> <<>>]
Deps(vals) == [given |-> TRUE, vals |-> vals]
NoEffect == [ret |-> FALSE]

\* wipFiber && wipFiber.alternate && wipFiber.alternate.hooks
\*   && wipFiber.alternate.hooks[hookIndex]
hookAt(st, alt) ==
  IF alt = Null THEN Null
  ELSE IF st.hookIndex < Len(st.fibers[alt].hooks)
  THEN st.fibers[alt].hooks[st.hookIndex + 1]
  ELSE Null
oldHookOf(st) ==
  IF st.wipFiber = Null THEN Null ELSE hookAt(st, st.fibers[st.wipFiber].alternate)

\* the slot of the evaluation: hook.state after the queue of the old slot
stateHook(st, value) ==
  [kind |-> "state", state |-> value, queue |-> <<>>,
   deps |-> NoDeps, effect |-> NoEffect, cleanup |-> Null, hasChanged |-> FALSE,
   site |-> <<st.fibers[st.wipFiber].type, st.hookIndex>>]

\* wipFiber.hooks.push(hook); hookIndex++
pushHook(st, hook) ==
  [st EXCEPT !.hooks = Append(@, hook),
             !.fibers[st.wipFiber].hooks = Append(@, Len(st.hooks) + 1),
             !.hookIndex = @ + 1]

useStateValue(st, value) ==
  [st |-> pushHook(st, stateHook(st, value)), value |-> value, hook |-> Len(st.hooks) + 1]

\* a slot that forgets the value of its counterpart
useStateFresh(st, initial, oldHook) ==
  useStateValue(st,
    IF oldHook # Null THEN applyQueue(st.hooks[oldHook].queue, initial) ELSE initial)

useStateFrom(st, initial, oldHook) ==
  useStateValue(st,
    IF oldHook # Null
    THEN applyQueue(st.hooks[oldHook].queue, st.hooks[oldHook].state)
    ELSE initial)

\* useState(initial): yields the engine, the value returned and the slot the
\* returned updater is bound to
useState(st, initial) == useStateFrom(st, initial, oldHookOf(st))

\* wipRoot = {dom: currentRoot.dom, props: currentRoot.props, alternate: currentRoot}
scheduleRoot(st) ==
  IF st.currentRoot = Null THEN Throw(st)
  ELSE [st EXCEPT !.fibers = Append(@,
                     Fiber(RootType, st.fibers[st.currentRoot].props,
                           st.fibers[st.currentRoot].children,
                           st.fibers[st.currentRoot].dom, Null, st.currentRoot, "")),
                  !.wipRoot = Len(st.fibers) + 1,
                  !.nextUnitOfWork = Len(st.fibers) + 1,
                  !.deletions = <<>>]

\* hook.queue.push(action)
enqueue(st, hook, action) == [st EXCEPT !.hooks[hook].queue = Append(@, action)]

\* the updater returned by useState for slot `hook`
setState(st, hook, action) == scheduleRoot(enqueue(st, hook, action))

\* deps.some((dep, i) => !Object.is(dep, oldHook.deps ? oldHook.deps[i] : undefined))
depsDiffer(deps, oldDeps) ==
  \E i \in 1..Len(deps.vals) :
     deps.vals[i] # (IF oldDeps.given /\ i <= Len(oldDeps.vals)
                     THEN oldDeps.vals[i] ELSE Absent)

\* a comparison that looks at no dependency
hasChangedAtCreation(st, deps, oldHook) == oldHook = Null \/ ~deps.given

hasChangedSince(st, deps, oldHook) ==
  oldHook = Null \/ ~deps.given \/ depsDiffer(deps, st.hooks[oldHook].deps)

effectHook(st, effect, deps, oldHook, hasChanged) ==
  [kind |-> "effect", state |-> 0, queue |-> <<>>,
   deps |-> deps, effect |-> effect,
   cleanup |-> IF oldHook # Null THEN st.hooks[oldHook].cleanup ELSE Null,
   hasChanged |-> hasChanged,
   site |-> <<st.fibers[st.wipFiber].type, st.hookIndex>>]

\* if (hasChanged) pendingEffects.push(hook)
queueEffect(st, hasChanged) ==
  IF hasChanged THEN [st EXCEPT !.pendingEffects = Append(@, Len(st.hooks) + 1)] ELSE st

useEffectWith(st, effect, deps, oldHook, hasChanged) ==
  pushHook(queueEffect(st, hasChanged), effectHook(st, effect, deps, oldHook, hasChanged))

useEffectFrom(st, effect, deps, oldHook) ==
  useEffectWith(st, effect, deps, oldHook, hasChangedSince(st, deps, oldHook))

useEffect(st, effect, deps) == useEffectFrom(st, effect, deps, oldHookOf(st))

\* hook.cleanup(): a cleanup closure is invoked
callCleanup(st, hook, how) ==
  [st EXCEPT !.cleanupCalls[st.hooks[hook].cleanup] = @ + 1,
             !.log = Append(@, Ev("cleanup", hook, how, st.hooks[hook].cleanup))]

\* hook.effect(): the effect callback is invoked; when it returns a cleanup,
\* that is a closure of its own
effectResult(st, returnsCleanup) ==
  IF returnsCleanup
  THEN [st |-> [st EXCEPT !.cleanupCalls = Append(@, 0)],
        cleanup |-> Len(st.cleanupCalls) + 1]
  ELSE [st |-> st, cleanup |-> Null]

\* an updater called by the body of an effect, recorded with its outcome
NoKick == [hook |-> Null, action |-> Val(0)]
logUpdate(r, hook) ==
  [r EXCEPT !.log = Append(@, Ev("update", hook, IF r.err THEN "fail" ELSE "ok", 0))]
callUpdater(st, kick) == logUpdate(setState(st, kick.hook, kick.action), kick.hook)
\* the body of the effect: it may call the updater it closes over
effectBody(st, effect) ==
  IF "kick" \in DOMAIN effect /\ effect.kick.hook # Null
  THEN callUpdater(st, effect.kick)
  ELSE st
\* a body that throws returns nothing
effectReturn(st, effect) == effectResult(st, effect.ret /\ ~st.err)

callEffect(st, hook) ==
  effectReturn(effectBody([st EXCEPT !.effectCalls[st.hooks[hook].site] = @ + 1,
                                     !.log = Append(@, Ev("effect", hook, "", 0))],
                          st.hooks[hook].effect),
               st.hooks[hook].effect)

\* if (typeof hook.cleanup === 'function') hook.cleanup()
runOldCleanup(st, hook) ==
  IF st.hooks[hook].cleanup # Null THEN callCleanup(st, hook, "flush") ELSE st

\* if (typeof cleanup === 'function') hook.cleanup = cleanup
recordCleanup(r, hook) ==
  IF r.cleanup # Null THEN [r.st EXCEPT !.hooks[hook].cleanup = r.cleanup] ELSE r.st

\* one turn of the loop of flushEffects, for the slot shifted off the queue
flushOne(st, hook) == recordCleanup(callEffect(runOldCleanup(st, hook), hook), hook)

RECURSIVE flushEffects(_)
flushEffects(st) ==
  IF st.err \/ st.pendingEffects = <<>> THEN st
  ELSE flushEffects(flushOne([st EXCEPT !.pendingEffects = Tail(@)],
                             Head(st.pendingEffects)))

\* ------------------------------------------------- the components rendered
\* fiber.type(fiber.props) for the function components of the model: the
\* slots each declares, in order, and the virtual node it returns.
\*   Counter: one state slot seeded 0, one effect on [count] that returns a cleanup
\*   Once:    one effect with an empty dependency list that returns a cleanup
\*   Pair:    two state slots; the kind of node it returns depends on the first
\*   Btn:     no slot; a button with a listener closure made by the evaluation
\*   Wrap:    one effect with an empty dependency list; returns a Once
\*   First:   like Counter, but only the effect run with count 0 returns a cleanup
\*   Echo:    one state slot seeded 0, one effect on [count] that sets the
\*            state to 2 when count is 1, one effect without dependency list
\*   Boot:    one state slot seeded 0 and one effect on a constant dependency
\*            that resets the state, as App does (App.js:106, 115-118)
\*   Empty:   no slot; returns null, rendering nothing
counterBody(r, returnsCleanup) ==
  [st |-> useEffect(r.st, [ret |-> returnsCleanup], Deps(<<r.value>>)),
   out |-> h("div", Props("value", r.value), <<>>)]

pairOut(r1, r2) ==
  [st |-> r2.st,
   out |-> IF r1.value = 0
           THEN h("div", Props("value", r2.value), <<>>)
           ELSE h("span", Props("value", r1.value), <<>>)]
pairBody(r1) == pairOut(r1, useState(r1.st, 5))

firstBody(r) == counterBody(r, r.value = 0)

echoEffect(r) ==
  [ret |-> FALSE,
   kick |-> IF r.value = 1 THEN [hook |-> r.hook, action |-> Val(2)] ELSE NoKick]
echoBody(r) ==
  [st |-> useEffect(useEffect(r.st, echoEffect(r), Deps(<<r.value>>)),
                    [ret |-> FALSE, kick |-> NoKick], NoDeps),
   out |-> h("div", Props("value", r.value), <<>>)]
bootBody(r) ==
  [st |-> useEffect(r.st, [ret |-> FALSE, kick |-> [hook |-> r.hook, action |-> Val(0)]],
                    Deps(<<0>>)),
   out |-> h("span", Props("value", r.value), <<>>)]

callComponent(st, fiber) ==
  CASE st.fibers[fiber].type = "Counter" -> counterBody(useState(st, 0), TRUE)
    [] st.fibers[fiber].type = "Once" ->
         [st |-> useEffect(st, [ret |-> TRUE], Deps(<<>>)),
          out |-> h("span", NoProps, <<>>)]
    [] st.fibers[fiber].type = "Pair" ->
         pairBody(useState(st, 0))
    [] st.fibers[fiber].type = "Btn" ->
         [st |-> [st EXCEPT !.closures = @ + 1],
          out |-> h("button", Props("onClick", st.closures + 1), <<>>)]
    [] st.fibers[fiber].type = "Wrap" ->
         [st |-> useEffect(st, [ret |-> TRUE], Deps(<<>>)),
          out |-> h("Once", NoProps, <<>>)]
    [] st.fibers[fiber].type = "Echo" -> echoBody(useState(st, 0))
    [] st.fibers[fiber].type = "Boot" -> bootBody(useState(st, 0))
    [] st.fibers[fiber].type = "Empty" -> [st |-> st, out |-> NullElement]
    [] OTHER -> firstBody(useState(st, 0))

\* --------------------------------------------------------------- scheduler
render(st, element, container) ==
  [st EXCEPT !.fibers = Append(@,
                Fiber(RootType, NoProps, <<element>>, container, Null, st.currentRoot, "")),
             !.wipRoot = Len(st.fibers) + 1,
             !.deletions = <<>>,
             !.nextUnitOfWork = Len(st.fibers) + 1]

\* the unit after `fiber`: its child, else the sibling of the nearest
\* ancestor-or-self that has one
RECURSIVE nextSibling(_, _)
nextSibling(st, nextFiber) ==
  IF nextFiber = Null THEN Null
  ELSE IF st.fibers[nextFiber].sibling # Null THEN st.fibers[nextFiber].sibling
  ELSE nextSibling(st, st.fibers[nextFiber].parent)

\* a walk that prefers the sibling of a node to its child
nextUnitSiblingFirst(st, fiber) ==
  [st |-> st,
   next |-> IF st.fibers[fiber].sibling # Null THEN st.fibers[fiber].sibling
            ELSE IF st.fibers[fiber].child # Null THEN st.fibers[fiber].child
            ELSE nextSibling(st, st.fibers[fiber].parent)]

nextUnit(st, fiber) ==
  [st |-> st,
   next |-> IF st.fibers[fiber].child # Null THEN st.fibers[fiber].child
            ELSE nextSibling(st, fiber)]

\* wipFiber = fiber; hookIndex = 0; wipFiber.hooks = []
beginComponent(st, fiber) ==
  [st EXCEPT !.wipFiber = fiber, !.hookIndex = 0, !.fibers[fiber].hooks = <<>>]

\* reconcileChildren(fiber, [fiber.type(fiber.props)])
reconcileOutput(r, fiber) == reconcileChildren(r.st, fiber, <<r.out>>)

\* fiber.dom = createDom(fiber)
setDom(r, fiber) == [r.st EXCEPT !.fibers[fiber].dom = r.dom]

\* a host node attached under its parent's as soon as it is made
attachNow(st, fiber, parent) ==
  IF parent = Null \/ st.fibers[parent].dom = Null THEN st
  ELSE appendChild(st, st.fibers[parent].dom, st.fibers[fiber].dom)
ensureDomAttached(st, fiber) ==
  IF st.fibers[fiber].dom = Null
  THEN attachNow(setDom(createDom(st, fiber), fiber), fiber, st.fibers[fiber].parent)
  ELSE st

\* if (!fiber.dom) fiber.dom = createDom(fiber)
ensureDom(st, fiber) ==
  IF st.fibers[fiber].dom = Null THEN setDom(createDom(st, fiber), fiber) ELSE st

\* the three branches of performUnitOfWork
beginWork(st, fiber) ==
  IF st.fibers[fiber].type \in FunctionTypes
  THEN reconcileOutput(callComponent(beginComponent(st, fiber), fiber), fiber)
  ELSE IF st.fibers[fiber].type = Fragment
  THEN reconcileChildren(st, fiber, st.fibers[fiber].children)
  ELSE reconcileChildren(ensureDom(st, fiber), fiber, st.fibers[fiber].children)

\* performUnitOfWork(fiber): yields the engine and the next unit of work
performUnitOfWork(st, fiber) == nextUnit(beginWork(st, fiber), fiber)

\* --------------------------------------------------------------- committer
\* hook.cleanup(); hook.cleanup = undefined
cleanupSlot(st, hook) ==
  IF st.hooks[hook].cleanup # Null
  THEN [callCleanup(st, hook, "delete") EXCEPT !.hooks[hook].cleanup = Null]
  ELSE st

RECURSIVE cleanupSlots(_, _)
cleanupSlots(st, hs) ==
  IF hs = <<>> THEN st
  ELSE cleanupSlots(cleanupSlot(st, Head(hs)), Tail(hs))

RECURSIVE cleanupHooks(_, _)
cleanupNext(st, fiber) == IF fiber # Null THEN cleanupHooks(st, fiber) ELSE st
\* cleanups that take the following sibling before the child subtree
cleanupHooksSiblingFirst(st, fiber) ==
  cleanupNext(cleanupNext(cleanupSlots(st, st.fibers[fiber].hooks),
                          st.fibers[fiber].sibling),
              st.fibers[fiber].child)

cleanupHooks(st, fiber) ==
  cleanupNext(cleanupNext(cleanupSlots(st, st.fibers[fiber].hooks),
                          st.fibers[fiber].child),
              st.fibers[fiber].sibling)

\* what commitDeletion is handed as domParent: a host node (from commitWork),
\* nothing, or the index that Array.prototype.forEach passes second
DomParent(dom) == [kind |-> IF dom = Null THEN "null" ELSE "dom", v |-> dom]
IndexArg(i) == [kind |-> "index", v |-> i]

\* domParent && domParent.removeChild(fiber.dom)
detach(st, domParent, dom) ==
  CASE domParent.kind = "dom" -> removeChild(st, domParent.v, dom)
    [] domParent.kind = "index" /\ domParent.v # 0 -> Throw(st)
    [] OTHER -> st

RECURSIVE commitDeletion(_, _, _)
detachOrDescend(st, fiber, domParent) ==
  IF st.fibers[fiber].dom # Null
  THEN detach(st, domParent, st.fibers[fiber].dom)
  ELSE commitDeletion(st, st.fibers[fiber].child, domParent)

commitDeletion(st, fiber, domParent) ==
  IF st.err THEN st
  ELSE IF fiber = Null THEN Throw(st)
  ELSE detachOrDescend(cleanupHooks(st, fiber), fiber, domParent)

\* the host node of the parent, whether it owns one or not
domParentOfParent(st, domParentFiber) ==
  IF domParentFiber = Null THEN Null ELSE st.fibers[domParentFiber].dom

\* the host node of the nearest ancestor that owns one
RECURSIVE domParentOf(_, _)
domParentOf(st, domParentFiber) ==
  IF domParentFiber = Null THEN Null
  ELSE IF st.fibers[domParentFiber].dom # Null THEN st.fibers[domParentFiber].dom
  ELSE domParentOf(st, st.fibers[domParentFiber].parent)

\* domParent && domParent.appendChild(fiber.dom)
place(st, domParent, dom) ==
  IF domParent # Null THEN appendChild(st, domParent, dom) ELSE st

\* updateDom(fiber.dom, fiber.alternate.props, fiber.props)
update(st, fiber) ==
  IF st.fibers[fiber].alternate = Null THEN Throw(st)
  ELSE updateDom(st, st.fibers[fiber].dom,
                 st.fibers[st.fibers[fiber].alternate].props, st.fibers[fiber].props)

\* what commitWork does for the work node itself
commitNode(st, fiber) ==
  IF st.fibers[fiber].effectTag = "PLACEMENT" /\ st.fibers[fiber].dom # Null
  THEN place(st, domParentOf(st, st.fibers[fiber].parent), st.fibers[fiber].dom)
  ELSE IF st.fibers[fiber].effectTag = "UPDATE" /\ st.fibers[fiber].dom # Null
  THEN update(st, fiber)
  ELSE st

RECURSIVE commitWork(_, _)
commitWork(st, fiber) ==
  IF st.err \/ fiber = Null THEN st
  ELSE IF st.fibers[fiber].effectTag = "DELETION"
  THEN commitDeletion(st, fiber, DomParent(domParentOf(st, st.fibers[fiber].parent)))
  ELSE commitWork(commitWork(commitNode(st, fiber), st.fibers[fiber].child),
                  st.fibers[fiber].sibling)

\* deletions.forEach(commitDeletion): the callback gets (element, index, array)
RECURSIVE forEachDeletion(_, _)
forEachDeletion(st, i) ==
  IF st.err \/ i >= Len(st.deletions) THEN st
  ELSE forEachDeletion(
         commitDeletion([st EXCEPT !.log = Append(@, Ev("deletion", st.deletions[i + 1], "", i))],
                        st.deletions[i + 1], IndexArg(i)),
         i + 1)

\* commitWork(wipRoot.child)
commitTree(st) == IF st.err THEN st ELSE commitWork(st, st.fibers[st.wipRoot].child)

\* currentRoot = wipRoot; wipRoot = null
finishCommit(st) ==
  IF st.err THEN st
  ELSE [st EXCEPT !.currentRoot = st.wipRoot,
                  !.wipRoot = Null,
                  !.commits = @ + 1,
                  !.lastBatch = st.batch,
                  !.batch = <<>>]

\* a commit that flushes the effects before it walks the tree
commitRootEffectsFirst(st) ==
  finishCommit(commitTree(flushEffects(
    forEachDeletion([st EXCEPT !.log = <<>>, !.before = st.hooks], 0))))

commitRoot(st) ==
  finishCommit(flushEffects(commitTree(
    forEachDeletion([st EXCEPT !.log = <<>>, !.before = st.hooks], 0))))

\* nextUnitOfWork = performUnitOfWork(nextUnitOfWork)
advance(r) == IF r.st.err THEN r.st ELSE [r.st EXCEPT !.nextUnitOfWork = r.next]

\* the while loop of workLoop: units are processed until none is left or the
\* deadline reports less than 1 ms, which it does after `budget` units
RECURSIVE workUnits(_, _)
workUnits(st, budget) ==
  IF st.err \/ st.nextUnitOfWork = Null \/ budget = 0 THEN st
  ELSE workUnits(advance(performUnitOfWork(st, st.nextUnitOfWork)), budget - 1)

\* a commit made at every yield, whether or not units are left
commitIfDoneAtYield(st) ==
  IF ~st.err /\ st.wipRoot # Null THEN commitRoot(st) ELSE st

\* if (!nextUnitOfWork && wipRoot) commitRoot()
commitIfDone(st) ==
  IF ~st.err /\ st.nextUnitOfWork = Null /\ st.wipRoot # Null THEN commitRoot(st) ELSE st

\* schedule(workLoop) is reached unless something threw
reschedule(st) == IF st.err THEN [st EXCEPT !.err = FALSE, !.halted = TRUE] ELSE st

\* workLoop(deadline)
workLoop(st, budget) == reschedule(commitIfDone(workUnits(st, budget)))

\* a slice whose deadline never reports less than 1 ms: more units than any
\* tree of the model has
NoDeadline == 20
\* the engine after such a slice, when the loop is still scheduled
runToIdle(st) == IF st.halted THEN st ELSE workLoop(st, NoDeadline)

\* ------------------------------------------------------------------ inputs
\* the virtual node trees a behaviour may hand to render: one menu per run
Li(v) == h("li", Props("value", v), <<>>)
List3 == h("ul", NoProps, <<Li(1), Li(2), Li(3)>>)
List2 == h("ul", NoProps, <<Li(10), Li(20)>>)
Section == h("section", NoProps, <<h("Wrap", NoProps, <<>>), h("Once", NoProps, <<>>)>>)
Full == h("div", NoProps, <<Section>>)
Bare == h("div", NoProps, <<>>)
Two == h("div", NoProps, <<h("span", NoProps, <<>>), h("Once", NoProps, <<>>)>>)

MenuList == {List3, List2}
MenuCounter == {h("Counter", NoProps, <<>>)}
MenuOnce == {h("Once", NoProps, <<>>)}
MenuPair == {h("Pair", NoProps, <<>>)}
MenuTree == {Full, Bare, Two}
MenuBtn == {h("Btn", NoProps, <<>>)}
MenuFirst == {h("First", NoProps, <<>>)}
Menus == {MenuList, MenuCounter, MenuOnce, MenuPair, MenuTree, MenuBtn, MenuFirst}

\* trees whose effects call updaters
MenuEcho == {h("div", NoProps, <<h("Echo", NoProps, <<>>), h("Once", NoProps, <<>>)>>)}
MenuBoot == {h("div", NoProps, <<h("Boot", NoProps, <<>>), h("Once", NoProps, <<>>)>>)}

\* the updates a caller may hand to an updater
Updates == {Fn(1), Val(3)}

\* ------------------------------------------ the media list (part_000)
\* A file name is a sequence of characters and a MIME type a pair
\* <<family, subtype>>.  String.prototype.toLowerCase on the alphabet used:
toLowerCase(str) ==
  [i \in DOMAIN str |-> CASE str[i] = "A" -> "a" [] str[i] = "B" -> "b" [] OTHER -> str[i]]
\* String.prototype.includes
includes(str, part) ==
  \E i \in 0..(Len(str) - Len(part)) : SubSeq(str, i + 1, i + Len(part)) = part

\* useState([]), useState('all'), useState(''); last: the handler that ran
\* last and the status it was given (an observation, not program state)
MediaLoaded ==
  [entries |-> <<>>, filter |-> "all", search |-> <<>>,
   last |-> [op |-> "none", status |-> "pending"]]

createEntry(file, index) ==
  [id |-> <<file.name, index>>, file |-> file, status |-> "pending"]
isImage(type) == type[1] = "image"
isVideo(type) == type[1] = "video"

\* mediaFiles.map((file, index) => createEntry(file, index))
mediaEntries(mediaFiles) ==
  [i \in DOMAIN mediaFiles |-> createEntry(mediaFiles[i], i - 1)]
handleFolderSelect(m, fileList) ==
  IF fileList = <<>> THEN m
  ELSE [m EXCEPT !.entries =
          mediaEntries(SelectSeq(fileList, LAMBDA f : isImage(f.type) \/ isVideo(f.type)))]

handleStatusChange(m, id, nextStatus) ==
  [m EXCEPT !.entries =
     [i \in DOMAIN @ |-> IF @[i].id = id THEN [@[i] EXCEPT !.status = nextStatus] ELSE @[i]]]

handleBulk(m, nextStatus) ==
  [m EXCEPT !.entries =
     [i \in DOMAIN @ |->
        IF m.filter = "all" \/ m.filter = @[i].status
        THEN [@[i] EXCEPT !.status = nextStatus] ELSE @[i]]]

\* the predicate of filteredEntries, and the filtered view
matches(m, item) ==
  /\ m.filter = "all" \/ item.status = m.filter
  /\ includes(toLowerCase(item.file.name), toLowerCase(m.search))
filteredEntries(m) == SelectSeq(m.entries, LAMBDA item : matches(m, item))

\* ------------------------------------------ the keyboard review (app.js)
\* An item id is a pair <<load, index>>: createId() yields a value that no
\* earlier call has yielded, which the number of the load stands for.  A null
\* id and a null lastAction are the empty sequence.
\* useState([]), useState(null), useState(true), useState('all'),
\* useState(null).  Observations beside the program state: loads (calls of
\* handleFiles), trail (the two handlers that ran last), snap (the items and
\* the active id as they were before the latest decision), fresh (a decision
\* was made and no undoLast has run since).
ReviewLoaded ==
  [items |-> <<>>, activeId |-> <<>>, isExpanded |-> TRUE, filter |-> "all",
   lastAction |-> <<>>, loads |-> 0, trail |-> <<"none", "none">>,
   snap |-> [items |-> <<>>, id |-> <<>>], fresh |-> FALSE]

\* list.filter((i) => (i.status ?? 'pending') === 'pending')
pendingOf(list) == SelectSeq(list, LAMBDA i : i.status = "pending")
\* list.findIndex((i) => i.id === id), counted from 0; -1 when there is none
findIndex(list, id) ==
  IF \E k \in DOMAIN list : list[k].id = id
  THEN (CHOOSE k \in DOMAIN list :
          list[k].id = id /\ \A j \in 1..(k - 1) : list[j].id # id) - 1
  ELSE -1

\* the items handleFiles makes of the picked files
pickedMedia(r, picked) ==
  LET files == SelectSeq(picked, LAMBDA f : f.type[1] = "image" \/ f.type[1] = "video")
  IN [i \in DOMAIN files |->
        [id |-> <<r.loads + 1, i - 1>>, name |-> files[i].name,
         type |-> IF files[i].type[1] = "video" THEN "video" ELSE "image",
         status |-> "pending"]]
handleFiles(r, picked) ==
  [r EXCEPT !.items = pickedMedia(r, picked),
            !.activeId = IF pickedMedia(r, picked) = <<>> THEN <<>>
                         ELSE pickedMedia(r, picked)[1].id,
            !.isExpanded = TRUE,
            !.filter = "all",
            !.loads = @ + 1]

\* setActiveId(target.id); setIsExpanded(true)
activate(r, id) == [r EXCEPT !.activeId = id, !.isExpanded = TRUE]

neighborIn(r, list, direction) ==
  IF list = <<>> THEN r
  ELSE activate(r, list[((findIndex(list, r.activeId) + direction + Len(list))
                          % Len(list)) + 1].id)
goToNeighbor(r, direction, mode) ==
  IF r.items = <<>> THEN r
  ELSE neighborIn(r, IF mode = "pending" THEN pendingOf(r.items) ELSE r.items, direction)

\* goToNextPending(updated): the closure's activeId is that of the render
nextPendingIn(r, pending) ==
  IF pending = <<>> THEN r
  ELSE activate(r, pending[((findIndex(pending, r.activeId) + 1) % Len(pending)) + 1].id)
goToNextPending(r, updated) == nextPendingIn(r, pendingOf(updated))

\* items.map(...) of handleDecision, and the handler
decided(items, id, status) ==
  [i \in DOMAIN items |->
     IF items[i].id = id THEN [items[i] EXCEPT !.status = status] ELSE items[i]]
handleDecision(r, status) ==
  IF findIndex(r.items, r.activeId) < 0 THEN r
  ELSE goToNextPending(
         [r EXCEPT !.items = decided(r.items, r.activeId, status),
                   !.lastAction =
                      <<[id |-> r.activeId,
                         from |-> r.items[findIndex(r.items, r.activeId) + 1].status,
                         to |-> status]>>],
         decided(r.items, r.activeId, status))

\* an undo that puts the item back to pending whatever it was
undoLastToPending(r) ==
  IF r.lastAction = <<>> THEN r
  ELSE [activate(r, r.lastAction[1].id) EXCEPT
          !.items = decided(r.items, r.lastAction[1].id, "pending"),
          !.lastAction = <<>>]

undoLast(r) ==
  IF r.lastAction = <<>> THEN r
  ELSE [activate(r, r.lastAction[1].id) EXCEPT
          !.items = decided(r.items, r.lastAction[1].id, r.lastAction[1].from),
          !.lastAction = <<>>]

toggleThumb(r, id) ==
  IF id = r.activeId THEN [r EXCEPT !.isExpanded = ~@] ELSE activate(r, id)

\* ------------------------------------------------------------------- state
VARIABLES fibers, hooks, doms, nextUnitOfWork, wipRoot, currentRoot, deletions,
          wipFiber, hookIndex, pendingEffects, halted, obs, menu, requests,
          media, review

vars == <<fibers, hooks, doms, nextUnitOfWork, wipRoot, currentRoot, deletions,
          wipFiber, hookIndex, pendingEffects, halted, obs, menu, requests,
          media, review>>

\* the current engine
S ==
  [fibers |-> fibers, hooks |-> hooks, doms |-> doms,
   nextUnitOfWork |-> nextUnitOfWork, wipRoot |-> wipRoot,
   currentRoot |-> currentRoot, deletions |-> deletions, wipFiber |-> wipFiber,
   hookIndex |-> hookIndex, pendingEffects |-> pendingEffects,
   err |-> FALSE, halted |-> halted,
   log |-> obs.log, effectCalls |-> obs.effectCalls,
   cleanupCalls |-> obs.cleanupCalls, closures |-> obs.closures,
   commits |-> obs.commits, batch |-> obs.batch, lastBatch |-> obs.lastBatch,
   before |-> obs.before]

Obs(st) ==
  [log |-> st.log, effectCalls |-> st.effectCalls, cleanupCalls |-> st.cleanupCalls,
   closures |-> st.closures, commits |-> st.commits, batch |-> st.batch,
   lastBatch |-> st.lastBatch, before |-> st.before]

\* the engine becomes st
Becomes(st) ==
  /\ fibers' = st.fibers
  /\ hooks' = st.hooks
  /\ doms' = st.doms
  /\ nextUnitOfWork' = st.nextUnitOfWork
  /\ wipRoot' = st.wipRoot
  /\ currentRoot' = st.currentRoot
  /\ deletions' = st.deletions
  /\ wipFiber' = st.wipFiber
  /\ hookIndex' = st.hookIndex
  /\ pendingEffects' = st.pendingEffects
  /\ halted' = st.halted
  /\ obs' = Obs(st)
  /\ UNCHANGED <<media, review>>

\* the work nodes of the tree under `fiber`, in pre-order, following siblings
RECURSIVE PreOrder(_, _)
PreOrder(fs, fiber) ==
  IF fiber = Null THEN <<>>
  ELSE <<fiber>> \o PreOrder(fs, fs[fiber].child) \o PreOrder(fs, fs[fiber].sibling)

Range(seq) == {seq[i] : i \in DOMAIN seq}

\* the work nodes of the tree of root `root`
Tree(fs, root) == IF root = Null THEN {} ELSE {root} \cup Range(PreOrder(fs, fs[root].child))

\* the state slots of the committed tree: their updaters are the ones a
\* listener or a callback of the committed evaluation holds
CommittedStateHooks ==
  {hk \in DOMAIN hooks :
     /\ hooks[hk].kind = "state"
     /\ \E f \in Tree(fibers, currentRoot) : hk \in Range(fibers[f].hooks)}

\* the state after the module is loaded: nothing rendered, the loop scheduled
Loaded ==
  /\ fibers = InitEngine.fibers
  /\ hooks = InitEngine.hooks
  /\ doms = InitEngine.doms
  /\ nextUnitOfWork = InitEngine.nextUnitOfWork
  /\ wipRoot = InitEngine.wipRoot
  /\ currentRoot = InitEngine.currentRoot
  /\ deletions = InitEngine.deletions
  /\ wipFiber = InitEngine.wipFiber
  /\ hookIndex = InitEngine.hookIndex
  /\ pendingEffects = InitEngine.pendingEffects
  /\ halted = InitEngine.halted
  /\ obs = Obs(InitEngine)
  /\ requests = 0
  /\ media = MediaLoaded
  /\ review = ReviewLoaded

Init == Loaded /\ menu \in Menus

\* render(element, container), as the `limit`-th request at most
RenderWithin(limit) ==
  /\ requests < limit
  /\ \E element \in menu : Becomes(render(S, element, Container))
  /\ requests' = requests + 1
  /\ UNCHANGED menu

\* an updater of the committed evaluation is handed one of `ups`
SetStateWithin(limit, ups) ==
  /\ requests < limit
  /\ \E hk \in CommittedStateHooks, action \in ups :
       Becomes([setState(S, hk, action) EXCEPT
                  !.err = FALSE,
                  !.batch = Append(@, [hook |-> hk, action |-> action])])
  /\ requests' = requests + 1
  /\ UNCHANGED menu

\* main.js:6 and any later caller: render(element, container)
Render == RenderWithin(MaxRequests)

\* a listener or callback of the committed evaluation calls an updater
SetState == SetStateWithin(MaxRequests, Updates)

\* the host grants an idle slice: workLoop(deadline)
WorkLoop ==
  /\ ~halted
  /\ \E budget \in 1..MaxSlice : Becomes(workLoop(S, budget))
  /\ UNCHANGED <<menu, requests>>

Next == Render \/ SetState \/ WorkLoop

Spec == Init /\ [][Next]_vars

\* The counter scenario: a Counter is mounted once, and its updater is then
\* handed increments only.
InitCounter == Loaded /\ menu = MenuCounter
Mount == RenderWithin(1)
Increment == requests >= 1 /\ SetStateWithin(1 + MaxIncrements, {Fn(1)})
NextCounter == Mount \/ Increment \/ WorkLoop
SpecCounter == InitCounter /\ [][NextCounter]_vars

\* The scenario of effects that call updaters: the requests of Spec, made on
\* trees whose effect bodies call the updater of their component.
InitEffects == Loaded /\ menu \in {MenuEcho, MenuBoot}
SpecEffects == InitEffects /\ [][Next]_vars

\* The scenario of createElement: an argument list is drawn, and the element
\* createElement makes of it is handed to render.
Span == h("span", NoProps, <<>>)
ChildArgs ==
  {Prim(1), NullChild, Undefined, Node(Span), List(<<Prim(2)>>),
   List(<<List(<<Prim(3)>>)>>), List(<<Node(Span), Undefined>>)}
ArgLists == UNION {[1..n -> ChildArgs] : n \in 0..MaxChildren}
InitCreate == Loaded /\ menu \in {{args} : args \in ArgLists}
CreateElement ==
  /\ requests = 0
  /\ \E args \in menu : Becomes(render(S, createElement("div", NoProps, args), Container))
  /\ requests' = 1
  /\ UNCHANGED menu
SpecCreate == InitCreate /\ [][CreateElement]_vars

\* The host keeps granting idle slices: a scheduled work loop with pending
\* work is eventually invoked (requestIdleCallback, or the 1 ms timer).
\* Granted is what such an invocation does to the position of the walk, and
\* nothing more: among the steps of Next, the steps that leave the requests
\* alone and move nextUnitOfWork are exactly the WorkLoop steps taken with
\* work pending, and one is possible whenever the loop is scheduled and a unit
\* is pending, so weak fairness of Granted is weak fairness of those steps.
Granted ==
  /\ ~halted /\ nextUnitOfWork # Null
  /\ \E n \in 0..(Len(fibers) + 4 * MaxSlice) : nextUnitOfWork' = n
  /\ UNCHANGED <<menu, requests>>
position == <<nextUnitOfWork, menu, requests>>
FairSpec == Spec /\ WF_position(Granted)
FairEffects == SpecEffects /\ WF_position(Granted)

\* The two-target scenario: a tree is rendered into the first mount target,
\* and every later render request names the second.
RenderInto(container) ==
  /\ requests < MaxRequests
  /\ \E element \in menu : Becomes(render(S, element, container))
  /\ requests' = requests + 1
  /\ UNCHANGED menu
MountFirst == requests = 0 /\ RenderInto(Container)
MountSecond == requests >= 1 /\ RenderInto(Container2)
NextTargets == MountFirst \/ MountSecond \/ WorkLoop
SpecTargets == Init /\ [][NextTargets]_vars

\* ============================================================== properties
\* what an update makes of a value, and the left fold of a sequence of updates
Updated(u, v) == IF u.kind = "val" THEN u.v ELSE IF u.v = 1 THEN v + 1 ELSE 2 * v
RECURSIVE LeftFold(_, _)
LeftFold(us, v) == IF us = <<>> THEN v ELSE LeftFold(Tail(us), Updated(Head(us), v))

\* the updates handed to the updater of slot hk, in the order of the calls
RECURSIVE Submitted(_, _)
Submitted(calls, hk) ==
  IF calls = <<>> THEN <<>>
  ELSE (IF Head(calls).hook = hk THEN <<Head(calls).action>> ELSE <<>>)
       \o Submitted(Tail(calls), hk)

\* the state slots of work node f that have a counterpart in its alternate
StateSlots(f) ==
  IF fibers[f].alternate = Null THEN {}
  ELSE {i \in DOMAIN fibers[f].hooks :
          /\ i <= Len(fibers[fibers[f].alternate].hooks)
          /\ hooks[fibers[f].hooks[i]].kind = "state"}
NewSlot(f, i) == fibers[f].hooks[i]
OldSlot(f, i) == fibers[fibers[f].alternate].hooks[i]

\* every state slot evaluated in the tree of `root` holds the left fold of
\* `calls` over the value of its counterpart
Settled(root, calls) ==
  \A f \in Tree(fibers, root) : \A i \in StateSlots(f) :
     hooks[NewSlot(f, i)].state
       = LeftFold(Submitted(calls, OldSlot(f, i)), hooks[OldSlot(f, i)].state)

\* C1: the value useState returns at the next evaluation of a component is the
\* left fold, in submission order, of the updates handed to the updater of the
\* committed evaluation over the value settled there; it is so in the tree in
\* progress and, after the commit, in the committed tree.
C1_LeftFold ==
  /\ Settled(wipRoot, obs.batch)
  /\ (wipRoot = Null => Settled(currentRoot, obs.lastBatch))

\* C1: a slot was evaluated after a replacement and then a function were
\* handed to the updater of its counterpart, and holds 3 + 1
C1_Witness ==
  \E f \in Tree(fibers, wipRoot) : \E i \in StateSlots(f) :
     /\ Submitted(obs.batch, OldSlot(f, i)) = <<Val(3), Fn(1)>>
     /\ hooks[NewSlot(f, i)].state = 4

\* the child chain of a work node, first child first
RECURSIVE Chain(_)
Chain(c) == IF c = Null THEN <<>> ELSE <<c>> \o Chain(fibers[c].sibling)
Children(f) == Chain(fibers[f].child)

\* a slot with no update waiting in its queue
Quiet(hk) == hooks[hk].queue = <<>>

\* C2: a state slot whose counterpart in the alternate has no pending update
\* holds the value settled there, for every work node on the heap (whatever
\* cycle made it) and every slot index, whatever the component returned.
C2_StatePersists ==
  \A f \in DOMAIN fibers : \A i \in StateSlots(f) :
     Quiet(OldSlot(f, i)) => hooks[NewSlot(f, i)].state = hooks[OldSlot(f, i)].state

\* C2: a Pair was evaluated again with nothing pending; its first slot kept
\* the 3 it was set to, its second the 5 it was seeded with, and the Pair now
\* returns a span where its first evaluation returned a div
C2_Witness ==
  \E f \in DOMAIN fibers :
     /\ fibers[f].type = "Pair" /\ StateSlots(f) = {1, 2}
     /\ Quiet(OldSlot(f, 1)) /\ Quiet(OldSlot(f, 2))
     /\ hooks[NewSlot(f, 1)].state = 3 /\ hooks[NewSlot(f, 2)].state = 5
     /\ fibers[f].child # Null /\ fibers[fibers[f].child].type = "span"

\* two work trees of identical structure: the same kinds at the same
\* positions, the same child counts
RECURSIVE SameShape(_, _)
SameShape(a, b) ==
  /\ fibers[a].type = fibers[b].type
  /\ Len(Children(a)) = Len(Children(b))
  /\ \A i \in 1..Len(Children(a)) : SameShape(Children(a)[i], Children(b)[i])

\* a commit has just completed and nothing was requested since
JustCommitted == currentRoot # Null /\ wipRoot = Null /\ ~halted
Previous == fibers[currentRoot].alternate
Below(root) == Tree(fibers, root) \ {root}

\* C3: when the tree just committed has the structure of the tree committed
\* before it, every work node of the cycle is tagged UPDATE (none PLACEMENT)
\* and the deletions list is empty.
C3_AllUpdates ==
  (JustCommitted /\ Previous # Null /\ SameShape(currentRoot, Previous))
    => /\ \A f \in Below(currentRoot) : fibers[f].effectTag = "UPDATE"
       /\ deletions = <<>>

\* C3: a tree of five work nodes was committed over one of the same structure
C3_Witness ==
  /\ JustCommitted /\ Previous # Null /\ SameShape(currentRoot, Previous)
  /\ Cardinality(Tree(fibers, currentRoot)) >= 5

\* the list of List2 was just committed over the list of List3
ListShrunk ==
  /\ JustCommitted /\ Previous # Null
  /\ fibers[currentRoot].children = <<List2>>
  /\ fibers[Previous].children = <<List3>>
NewItems == Children(fibers[currentRoot].child)
OldItems == Children(fibers[Previous].child)

\* C4: after children 1,2,3 a render of children 10,20 leaves new work nodes
\* at positions 0 and 1 tagged UPDATE with values 10 and 20, the old node of
\* position 2 tagged DELETION and alone in the deletions list, and no work node
\* tagged PLACEMENT.
C4_ShrinkingList ==
  ListShrunk =>
    /\ Len(NewItems) = 2 /\ Len(OldItems) = 3
    /\ fibers[NewItems[1]].effectTag = "UPDATE" /\ fibers[NewItems[1]].props["value"] = 10
    /\ fibers[NewItems[2]].effectTag = "UPDATE" /\ fibers[NewItems[2]].props["value"] = 20
    /\ fibers[NewItems[1]].alternate = OldItems[1]
    /\ fibers[NewItems[2]].alternate = OldItems[2]
    /\ fibers[OldItems[3]].effectTag = "DELETION"
    /\ deletions = <<OldItems[3]>>
    /\ \A f \in Below(currentRoot) : fibers[f].effectTag # "PLACEMENT"

\* C4: the list of two was committed over the list of three
C4_Witness == ListShrunk /\ fibers[OldItems[3]].props["value"] = 3

\* C5: an effect with an empty dependency list, declared by a component that
\* keeps its position and kind and is never deleted (the one Once of the Once
\* menu), has its callback invoked once in all: never a second time, and once
\* as soon as a commit has completed.
C5_OnceOnly ==
  menu = MenuOnce =>
    /\ obs.effectCalls[<<"Once", 0>>] <= 1
    /\ (obs.commits >= 1 => obs.effectCalls[<<"Once", 0>>] = 1)

\* the state slot of the committed Counter
CounterSlot == fibers[fibers[currentRoot].child].hooks[1]

\* C6: after the first commit and three increments made before the next
\* commit completes, the state settled at that commit is 3 and the effect on
\* [count] has been invoked twice in all.
C6_ThreeIncrements ==
  (JustCommitted /\ obs.commits = 2 /\ Len(obs.lastBatch) = 3
     /\ \A i \in 1..3 : obs.lastBatch[i].action = Fn(1))
    => /\ hooks[CounterSlot].state = 3
       /\ obs.effectCalls[<<"Counter", 1>>] = 2

\* the slots of the subtree of a deleted work node d in pre-order: its own in
\* declaration order, then those of its child subtree; within the subtree a
\* node's slots, its child subtree, its following siblings
RECURSIVE SlotsFrom(_)
SlotsFrom(n) ==
  IF n = Null THEN <<>>
  ELSE fibers[n].hooks \o SlotsFrom(fibers[n].child) \o SlotsFrom(fibers[n].sibling)
SlotOrder(d) == fibers[d].hooks \o SlotsFrom(fibers[d].child)
Subtree(d) == {d} \cup Range(PreOrder(fibers, fibers[d].child))
HostNodes(d) == {fibers[f].dom : f \in Subtree(d)} \ {Null}

\* the work nodes the latest commit called commitDeletion for
Deleted == {obs.log[i].n : i \in {j \in DOMAIN obs.log : obs.log[j].op = "deletion"}}
\* the cleanups the latest commit's deletions invoked for slots of d's subtree
IsCleanupOf(e, d) ==
  e.op = "cleanup" /\ e.key = "delete" /\ e.n \in Range(SlotOrder(d))
CleanupEvents(d) == SelectSeq(obs.log, LAMBDA e : IsCleanupOf(e, d))
\* the slots of d's subtree that had a cleanup recorded when the commit began
Recorded(d) == SelectSeq(SlotOrder(d), LAMBDA hk : obs.before[hk].cleanup # Null)

C8_CleanupAtMostOnce ==
  \A c \in DOMAIN obs.cleanupCalls : obs.cleanupCalls[c] <= 1

\* the element handed to render is the one of the commit before, and no
\* updater was called in between
SameRequest ==
  /\ JustCommitted /\ Previous # Null
  /\ fibers[currentRoot].children = fibers[Previous].children
  /\ obs.lastBatch = <<>>
\* what the latest commit did to host nodes
HostOps == {"set", "clear", "attach", "detach", "append", "remove"}
Mutations == SelectSeq(obs.log, LAMBDA e : e.op \in HostOps)

\* C9 as stated: committing the element of the previous commit again, with no
\* updater call in between, performs no attribute set/clear, no listener
\* attach/detach and no append/remove of a host node.
C9_SameRequestNoMutation == SameRequest => Mutations = <<>>

\* two committed trees agree in kinds, child counts and every attribute and
\* listener value
RECURSIVE SameTree(_, _)
SameTree(a, b) ==
  /\ fibers[a].type = fibers[b].type
  /\ \A k \in PropKeys : fibers[a].props[k] = fibers[b].props[k]
  /\ Len(Children(a)) = Len(Children(b))
  /\ \A i \in 1..Len(Children(a)) : SameTree(Children(a)[i], Children(b)[i])

\* C9 amended: when in addition every node of the second tree, component
\* outputs included, carries the attribute and listener values of the first
\* (no listener closure made anew by an evaluation), the second commit
\* performs no mutation of a host node.
C9_SameTreeNoMutation ==
  (SameRequest /\ SameTree(currentRoot, Previous)) => Mutations = <<>>

\* C9: a tree with host nodes that carry attributes was committed twice
C9_Witness ==
  /\ SameRequest /\ SameTree(currentRoot, Previous)
  /\ Cardinality({f \in Below(currentRoot) : fibers[f].props["value"] # Absent}) >= 3

\* the host node a deleted work node owns, or the one found down its child chain
RECURSIVE HostHandle(_)
HostHandle(d) ==
  IF d = Null THEN Null
  ELSE IF fibers[d].dom # Null THEN fibers[d].dom
  ELSE HostHandle(fibers[d].child)
Attached(n) == n # Null /\ doms[n].parent # Null

\* C10: a commit detaches the host node of every work node of the deletions
\* list, whatever its position in the list: after a commit none is attached,
\* and no commit stops at a deletion.
C10_DeletedDetached ==
  /\ JustCommitted => \A i \in DOMAIN deletions : ~Attached(HostHandle(deletions[i]))
  /\ ~(halted /\ \E i \in DOMAIN obs.log : obs.log[i].op = "deletion")

\* the slots declared by the evaluations of the committed tree
CommittedSlots == UNION {Range(fibers[f].hooks) : f \in Tree(fibers, currentRoot)}
\* the work nodes of the committed tree were all made by the cycle that began
\* with its root
NodesOfCycle == \A f \in Tree(fibers, currentRoot) : f >= currentRoot
\* the deletions the commit applied are those listed by the committed cycle
DeletionsOfCycle ==
  \A i \in DOMAIN obs.log :
     obs.log[i].op = "deletion" => obs.log[i].n \in Range(deletions)
\* the effects and flush-time cleanups the commit invoked belong to slots of
\* the committed cycle
EffectsOfCycle ==
  \A i \in DOMAIN obs.log :
     (obs.log[i].op = "effect" \/ (obs.log[i].op = "cleanup" /\ obs.log[i].key = "flush"))
       => obs.log[i].n \in CommittedSlots

\* C11: a commit applies nothing of a cycle that was discarded before it: its
\* work nodes are those of the committed cycle, the deletions it applied are
\* those of the committed cycle, and every effect or cleanup it invoked was
\* queued by the committed cycle.
C11_DiscardedWholesale ==
  JustCommitted => NodesOfCycle /\ DeletionsOfCycle /\ EffectsOfCycle

\* the mount target named by the latest render request of the two-target
\* scenario
LastTarget == IF requests >= 2 THEN Container2 ELSE Container
\* the topmost host node above host node n
RECURSIVE HostRootOf(_)
HostRootOf(n) == IF doms[n].parent = Null THEN n ELSE HostRootOf(doms[n].parent)

\* C12: after the commit that follows render(v, T), the committed root's host
\* handle is T and every host node of the committed tree is attached under T,
\* also when a tree was committed under another mount target before.
C12_MountedUnderTarget ==
  (JustCommitted /\ requests >= 1) =>
    /\ fibers[currentRoot].dom = LastTarget
    /\ \A f \in Below(currentRoot) :
         fibers[f].dom # Null => HostRootOf(fibers[f].dom) = LastTarget

\* the latest commit's record of updaters called by effect bodies
UpdatesInCommit == SelectSeq(obs.log, LAMBDA e : e.op = "update")

\* C13: a step that completes a commit leaves currentRoot at the
\* work-in-progress root the commit applied; and when no updater was called
\* during the commit, the engine is idle after it.
C13_CommitInstallsTree ==
  [][(obs'.commits = obs.commits + 1) =>
        /\ currentRoot' = wipRoot
        /\ (UpdatesInCommit' = <<>> => (wipRoot' = Null /\ nextUnitOfWork' = Null))]_vars

\* C15: every updater call succeeds and schedules a whole-tree render: a call
\* made by an effect body during a commit does not fail, and after a call
\* made by a listener wipRoot is a new root on the mount target,
\* nextUnitOfWork is that root and the deletions list is empty.
C15_UpdaterSchedules ==
  [][/\ \A i \in DOMAIN UpdatesInCommit' : UpdatesInCommit'[i].key = "ok"
     /\ Len(obs'.batch) > Len(obs.batch) =>
          /\ wipRoot' = Len(fibers') /\ wipRoot' > Len(fibers)
          /\ fibers'[wipRoot'].dom = fibers[currentRoot].dom
          /\ nextUnitOfWork' = wipRoot'
          /\ deletions' = <<>>]_vars

\* an effect body has thrown during the flush of the latest commit
EffectFailed == \E i \in DOMAIN obs.log : obs.log[i].op = "update" /\ obs.log[i].key = "fail"

\* C16: when an effect fails during the flush, the effects queued after it
\* are still executed: none is left in the queue.
C16_FailureIsolated == EffectFailed => pendingEffects = <<>>

\* C17: a failure during a commit leaves the engine re-entrant: whenever a
\* unit of work is pending, the work loop is scheduled to process it.
C17_ReEntrant == nextUnitOfWork # Null => ~halted

\* what a commit does before its effect flush: deletions and host operations
CommitOps == HostOps \cup {"deletion"}

\* C14: within the latest commit every effect callback is invoked after all
\* deletions and host operations of the commit, and the effect callbacks are
\* invoked in the order in which their slots were declared.
C14_EffectsAfterMutations ==
  \A i, j \in DOMAIN obs.log :
     (obs.log[j].op = "effect") =>
        /\ (obs.log[i].op \in CommitOps => i < j)
        /\ ((obs.log[i].op = "effect" /\ i < j) => obs.log[i].n < obs.log[j].n)

\* C14: a commit appended host nodes and invoked three effects
C14_Witness ==
  /\ JustCommitted
  /\ Len(SelectSeq(obs.log, LAMBDA e : e.op = "effect")) >= 3
  /\ Len(Mutations) >= 3

\* the children of an argument list with lists of every depth flattened, in order
RECURSIVE DeepFlat(_)
DeepFlat(children) ==
  IF children = <<>> THEN <<>>
  ELSE (IF Head(children).k = "list" THEN DeepFlat(Head(children).items)
        ELSE <<Head(children)>>) \o DeepFlat(Tail(children))
\* a child as a virtual node: a node is kept, a primitive (null and undefined
\* included) becomes a text node
AsVirtualNode(c) ==
  CASE c.k = "node" -> c.node
    [] c.k = "prim" -> createTextElement(c.v)
    [] OTHER -> createTextElement(EmptyText)
IsVirtualNode(e) == e.type \notin {NullType, ArrayType}
\* the element made from the argument list, as handed to render
Created == fibers[wipRoot].children[1]
Args == CHOOSE args \in menu : TRUE

\* C18: the children of the node createElement returns are virtual nodes
\* only: the arguments with nested lists of any depth flattened in order and
\* every primitive, null and undefined included, replaced by a text node.
C18_ChildrenNormalized ==
  requests = 1 =>
    /\ \A i \in DOMAIN Created.children : IsVirtualNode(Created.children[i])
    /\ Created.children =
         [i \in 1..Len(DeepFlat(Args)) |-> AsVirtualNode(DeepFlat(Args)[i])]

\* C19: whenever work is pending, taking a slice of any length now and
\* finishing without yielding gives the engine that finishing without
\* yielding gives at once: the same committed tree, host nodes, log of host
\* operations, effect and cleanup invocations; so every choice of yield
\* points ends in the same engine.
C19_BudgetIndependent ==
  (~halted /\ nextUnitOfWork # Null) =>
     \A budget \in 1..MaxSlice : runToIdle(workLoop(S, budget)) = runToIdle(S)

\* C19: a walk has been interrupted after some units, over a committed tree,
\* and the commit it leads to performs host operations and invokes an effect
C19_Witness ==
  /\ ~halted /\ nextUnitOfWork # Null /\ nextUnitOfWork # wipRoot
  /\ currentRoot # Null /\ obs.batch # <<>>
  /\ runToIdle(S).commits = obs.commits + 1
  /\ \E i \in DOMAIN runToIdle(S).log : runToIdle(S).log[i].op = "effect"
  /\ \E i \in DOMAIN runToIdle(S).log : runToIdle(S).log[i].op = "set"

\* the effect slots declared since the latest commit began
NewEffectSlots ==
  {hk \in DOMAIN hooks : hooks[hk].kind = "effect" /\ hk > Len(obs.before)}
\* the work node whose evaluation declared slot hk, and the slot's index in it
Owner(hk) == CHOOSE f \in DOMAIN fibers : hk \in Range(fibers[f].hooks)
IndexIn(f, hk) == CHOOSE i \in DOMAIN fibers[f].hooks : fibers[f].hooks[i] = hk
\* the slot at the same index in the previous cycle's evaluation, if any
CounterpartIn(alt, i) ==
  IF alt # Null /\ i <= Len(fibers[alt].hooks) THEN fibers[alt].hooks[i] ELSE Null
Counterpart(hk) ==
  CounterpartIn(fibers[Owner(hk)].alternate, IndexIn(Owner(hk), hk))
\* the dependency the snapshot of slot old holds at index i
SnapshotAt(old, i) ==
  IF hooks[old].deps.given /\ i <= Len(hooks[old].deps.vals)
  THEN hooks[old].deps.vals[i] ELSE Absent
SomeDepDiffers(hk, old) ==
  \E i \in DOMAIN hooks[hk].deps.vals : hooks[hk].deps.vals[i] # SnapshotAt(old, i)
ShouldRun(hk, old) ==
  old = Null \/ ~hooks[hk].deps.given \/ SomeDepDiffers(hk, old)
Queued(hk) == hk \in Range(pendingEffects)

\* C20: a slot declared by useEffect is in the queue of pending effects
\* exactly when it has no counterpart in the previous cycle, or was given no
\* dependency list, or one of its dependencies differs from the counterpart's
\* snapshot at the same index; with an empty list and a counterpart it is not.
C20_QueuedWhenChanged ==
  \A hk \in NewEffectSlots :
     /\ Queued(hk) <=> ShouldRun(hk, Counterpart(hk))
     /\ (Counterpart(hk) # Null /\ hooks[hk].deps = Deps(<<>>)) => ~Queued(hk)

\* C20: slots with a counterpart were declared: one without dependency list
\* and one with a changed dependency are queued, one with an empty list is not
C20_Witness ==
  \E a, b, c \in NewEffectSlots :
     /\ Counterpart(a) # Null /\ Counterpart(b) # Null /\ Counterpart(c) # Null
     /\ ~hooks[a].deps.given /\ Queued(a)
     /\ hooks[b].deps.given /\ SomeDepDiffers(b, Counterpart(b)) /\ Queued(b)
     /\ hooks[c].deps = Deps(<<>>) /\ ~Queued(c)

\* nothing is in progress and nothing is pending
Idle == wipRoot = Null /\ nextUnitOfWork = Null

\* C21: when an effect body has called an updater during a commit, a later
\* commit follows that completes without a further updater call and leaves
\* the engine idle (the update was rendered and committed).
C21_EffectUpdateCommitted ==
  (UpdatesInCommit # <<>>) ~> (JustCommitted /\ Idle /\ UpdatesInCommit = <<>>)

\* C22: whenever a work-in-progress tree exists and the work loop is
\* scheduled, the engine eventually commits it and becomes idle.
C22_EventuallyIdle == (wipRoot # Null /\ ~halted) ~> (currentRoot # Null /\ Idle /\ ~halted)

\* the render cycle run from engine st without interruption: the units
\* performUnitOfWork is called on, in order, and the engine at the end
RECURSIVE Walk(_, _)
Walk(st, visited) ==
  IF st.err \/ st.nextUnitOfWork = Null THEN [st |-> st, visited |-> visited]
  ELSE Walk(advance(performUnitOfWork(st, st.nextUnitOfWork)),
            Append(visited, st.nextUnitOfWork))
\* the walk ended with no unit left, having visited the nodes of the tree it
\* built in pre-order, each once
IsPreOrderWalk(w, root) ==
  /\ ~w.st.err /\ w.st.nextUnitOfWork = Null
  /\ w.visited = <<root>> \o PreOrder(w.st.fibers, w.st.fibers[root].child)
  /\ \A i, j \in DOMAIN w.visited : w.visited[i] = w.visited[j] => i = j
CycleStarts == wipRoot # Null /\ nextUnitOfWork = wipRoot

\* C23: a render cycle that runs uninterrupted from its root visits the work
\* nodes of the work-in-progress tree in pre-order, depth first, each exactly
\* once, and ends with no next unit after the last of them.
C23_PreOrderWalk == CycleStarts => IsPreOrderWalk(Walk(S, <<>>), wipRoot)

\* C23: a cycle starts whose walk visits eight nodes, climbing two levels
\* to find a sibling
C23_Witness == CycleStarts /\ Len(Walk(S, <<>>).visited) >= 8

\* the host nodes attached under a mount target, and the host tree as the
\* user sees it: those nodes with their attributes, listeners and children
AttachedNodes == {n \in DOMAIN doms : HostRootOf(n) \in {Container, Container2}}
HostView == [n \in AttachedNodes |-> doms[n]]

\* the step ran commitRoot, to its end or to an exception
CommitRan == obs'.commits = obs.commits + 1 \/ (halted' /\ ~halted)

\* C24: a step that leaves a unit of work pending changes nothing of the
\* attached host tree; the attached host tree changes only in a step that
\* runs a commit, and a commit runs only on a work-in-progress tree with no
\* unit left.
C24_HostMutatedInCommitOnly ==
  [][/\ nextUnitOfWork' # Null => HostView' = HostView
     /\ HostView' # HostView => CommitRan
     /\ CommitRan => (wipRoot # Null /\ nextUnitOfWork' = Null)]_vars

\* C24: during a cycle over a committed tree a host node has been made for
\* a new work node and is not attached, with units still pending
C24_Witness ==
  /\ nextUnitOfWork # Null /\ currentRoot # Null /\ doms[Container].children # <<>>
  /\ \E f \in DOMAIN fibers :
        /\ f > wipRoot /\ fibers[f].effectTag = "PLACEMENT" /\ fibers[f].dom # Null
        /\ doms[fibers[f].dom].parent = Null

\* the host nodes owned by the nearest host-owning descendants of a work
\* node, in pre-order: the argument is its first child
RECURSIVE NearestHosts(_)
NearestHosts(n) ==
  IF n = Null THEN <<>>
  ELSE (IF fibers[n].dom # Null THEN <<fibers[n].dom>> ELSE NearestHosts(fibers[n].child))
       \o NearestHosts(fibers[n].sibling)

\* C25: after a commit the host children of the host node of every
\* host-owning work node of the committed tree are, in order, the host nodes
\* of its nearest host-owning descendants.
C25_HostOrder ==
  JustCommitted =>
    \A f \in Tree(fibers, currentRoot) :
       fibers[f].dom # Null =>
         doms[fibers[f].dom].children = NearestHosts(fibers[f].child)

\* a host element of changing tag followed by a component whose effect
\* returns a cleanup: the root element is rendered again with another tag
\* at the first position, so that the first child is replaced and its
\* following sibling is reused
MenuSiblings ==
  {h("div", NoProps, <<h("span", NoProps, <<>>), h("Counter", NoProps, <<>>)>>),
   h("div", NoProps, <<h("p", NoProps, <<>>), h("Counter", NoProps, <<>>)>>)}
InitSiblings == Loaded /\ menu = MenuSiblings
SpecSiblings == InitSiblings /\ [][Next]_vars

\* the slots owned by the work nodes the latest commit deleted and by their
\* descendants
DeletedSlots == UNION {Range(SlotOrder(d)) : d \in Deleted}

\* C26: every cleanup invoked by a deletion of the latest commit belongs to a
\* slot owned by a deleted work node or by one of its descendants.
C26_OnlyDeletedCleanups ==
  \A i \in DOMAIN obs.log :
     (obs.log[i].op = "cleanup" /\ obs.log[i].key = "delete")
        => obs.log[i].n \in DeletedSlots

\* the evaluations of a component up to work node f: f and the work nodes
\* before it in its chain of alternates
RECURSIVE Evaluations(_)
Evaluations(f) == IF f = Null THEN {} ELSE {f} \cup Evaluations(fibers[f].alternate)

\* the state slots any evaluation made for a component that is mounted in the
\* committed tree: useState returned an updater for each of them
MountedStateHooks ==
  {hk \in DOMAIN hooks :
     /\ hooks[hk].kind = "state"
     /\ \E f \in Tree(fibers, currentRoot) : \E g \in Evaluations(f) :
           hk \in Range(fibers[g].hooks)}

\* a callback holding an updater of any evaluation of a mounted component
\* calls it
SetStateOld ==
  /\ requests < MaxRequests
  /\ \E hk \in MountedStateHooks, action \in Updates :
       Becomes([setState(S, hk, action) EXCEPT
                  !.err = FALSE,
                  !.batch = Append(@, [hook |-> hk, action |-> action])])
  /\ requests' = requests + 1
  /\ UNCHANGED menu
NextOld == Render \/ SetStateOld \/ WorkLoop
SpecOld == InitCounter /\ [][NextOld]_vars

\* the updates of `calls` handed to an updater of one of the slots `hks`
SubmittedTo(calls, hks) == SelectSeq(calls, LAMBDA c : c.hook \in hks)
Actions(calls) == [k \in DOMAIN calls |-> calls[k].action]
\* the slots that the evaluations before work node f made at index i
Lineage(f, i) ==
  {fibers[g].hooks[i] : g \in {e \in Evaluations(fibers[f].alternate) : i <= Len(fibers[e].hooks)}}

\* C27: after a commit every state slot of the committed tree holds the left
\* fold, over the value its counterpart held, of all updates handed since the
\* commit before to any updater that an evaluation of the component returned
\* for the slot.
C27_NoUpdateLost ==
  (wipRoot = Null /\ currentRoot # Null) =>
    \A f \in Tree(fibers, currentRoot) : \A i \in StateSlots(f) :
       hooks[NewSlot(f, i)].state
         = LeftFold(Actions(SubmittedTo(obs.lastBatch, Lineage(f, i))),
                    hooks[OldSlot(f, i)].state)

\* the tree the reconciler works on, or has last completed
WorkRoot == IF wipRoot # Null THEN wipRoot ELSE currentRoot
WorkNodes == IF WorkRoot = Null THEN {} ELSE Tree(fibers, WorkRoot)
\* the previous children of work node p: the child chain of its alternate
OldChildren(p) ==
  IF fibers[p].alternate = Null THEN <<>> ELSE Children(fibers[p].alternate)
\* position i of work node p has a previous child
HasOld(p, i) == i <= Len(OldChildren(p))
\* position i of work node p has a previous child of the kind of the new one
SameKindAt(p, i) ==
  HasOld(p, i) /\ fibers[OldChildren(p)[i]].type = fibers[Children(p)[i]].type
\* the work node of position i of p carries the attributes of the i-th
\* virtual node of the list p was reconciled with (the list is kept on host,
\* fragment and root nodes; the output of a component function is not kept)
CarriesEntry(p, i) ==
  fibers[p].type \notin FunctionTypes
    => /\ fibers[Children(p)[i]].props = fibers[p].children[i].props
       /\ fibers[Children(p)[i]].type = fibers[p].children[i].type

\* C28: in the tree in progress (after the commit, the committed tree), at
\* every position where the previous child and the new virtual node share the
\* kind, the work node is a new one tagged UPDATE that has the previous
\* node's host handle, the attributes of the new virtual node, the previous
\* node as alternate and the reconciled node as parent, and the previous node
\* is not in the deletions list.
C28_SameKindUpdate ==
  \A p \in WorkNodes : \A i \in 1..Len(Children(p)) :
     SameKindAt(p, i) =>
        /\ Children(p)[i] # OldChildren(p)[i]
        /\ fibers[Children(p)[i]].effectTag = "UPDATE"
        /\ fibers[Children(p)[i]].dom = fibers[OldChildren(p)[i]].dom
        /\ fibers[Children(p)[i]].alternate = OldChildren(p)[i]
        /\ fibers[Children(p)[i]].parent = p
        /\ CarriesEntry(p, i)
        /\ OldChildren(p)[i] \notin Range(deletions)

\* C28: during a cycle a host node was reused at a position of the same kind
\* whose attributes changed, next to a position whose previous child is
\* listed for deletion
C28_Witness ==
  /\ wipRoot # Null /\ deletions # <<>>
  /\ \E p \in WorkNodes : \E i \in 1..Len(Children(p)) :
        /\ SameKindAt(p, i)
        /\ fibers[Children(p)[i]].dom # Null
        /\ fibers[Children(p)[i]].props # fibers[OldChildren(p)[i]].props
        /\ fibers[p].type \notin FunctionTypes

\* how often work node n stands in the deletions list
Listed(n) == Cardinality({k \in DOMAIN deletions : deletions[k] = n})
\* the host handle of work node n was not taken from a work node made before
FreshHandle(n) == \A g \in 1..(n - 1) : fibers[g].dom # fibers[n].dom

\* C29: in the tree in progress (after the commit, the committed tree), at
\* every position without previous child or with a previous child of another
\* kind, the work node is tagged PLACEMENT, has no alternate, the reconciled
\* node as parent, kind and attributes of its virtual node, and no host
\* handle until its own unit of work makes one for it; a previous child of
\* another kind is tagged DELETION and stands exactly once in the deletions
\* list; and no listed node is part of the tree.
C29_OtherKindPlacement ==
  /\ \A p \in WorkNodes : \A i \in 1..Len(Children(p)) :
        ~SameKindAt(p, i) =>
           /\ fibers[Children(p)[i]].effectTag = "PLACEMENT"
           /\ fibers[Children(p)[i]].alternate = Null
           /\ fibers[Children(p)[i]].parent = p
           /\ CarriesEntry(p, i)
           /\ (nextUnitOfWork = Children(p)[i] => fibers[Children(p)[i]].dom = Null)
           /\ (fibers[Children(p)[i]].dom # Null => FreshHandle(Children(p)[i]))
           /\ HasOld(p, i) =>
                /\ fibers[OldChildren(p)[i]].effectTag = "DELETION"
                /\ Listed(OldChildren(p)[i]) = 1
  /\ WorkNodes \cap Range(deletions) = {}

\* C29: during a cycle a work node of another kind than the previous child of
\* its position awaits its unit of work, and a later position of the same
\* parent has no previous child
C29_Witness ==
  /\ wipRoot # Null
  /\ \E p \in WorkNodes : \E i \in 1..Len(Children(p)) :
        /\ HasOld(p, i) /\ ~SameKindAt(p, i)
        /\ nextUnitOfWork = Children(p)[i]
        /\ fibers[p].type \notin FunctionTypes
  /\ \E p \in WorkNodes : \E i \in 1..Len(Children(p)) : ~HasOld(p, i) /\ fibers[p].alternate # Null

\* The scenario of reconciling created elements: an argument list is drawn,
\* the element createElement makes of it is handed to render, and the work
\* loop runs.
NextReconcile == CreateElement \/ WorkLoop
SpecReconcile == InitCreate /\ [][NextReconcile]_vars

\* the child chain of work node p holds one work node per entry of the list
\* p was reconciled with, in list order, each of the kind and with the
\* attributes of its entry and tagged UPDATE or PLACEMENT
OnePerEntry(p) ==
  /\ Len(Children(p)) = Len(fibers[p].children)
  /\ \A i \in 1..Len(Children(p)) :
        /\ i <= Len(fibers[p].children) => CarriesEntry(p, i)
        /\ fibers[Children(p)[i]].effectTag \in {"UPDATE", "PLACEMENT"}

\* C30: when the walk of a cycle is complete, every work node of the tree that
\* was reconciled with a list of children has exactly one child work node per
\* entry of the list, in list order, of the entry's kind and attributes,
\* tagged UPDATE or PLACEMENT.
C30_OneNodePerEntry ==
  nextUnitOfWork = Null =>
    \A p \in WorkNodes : fibers[p].type \notin FunctionTypes => OnePerEntry(p)

\* the entries of a child list that are not null, in list order
NonNull(elements) == SelectSeq(elements, LAMBDA e : e.type # NullType)
\* kind and attributes of the work nodes of a chain, and of the entries of a list
Linked(p) ==
  [i \in DOMAIN Children(p) |->
     [type |-> fibers[Children(p)[i]].type, props |-> fibers[Children(p)[i]].props]]
Entries(elements) ==
  [i \in DOMAIN elements |-> [type |-> elements[i].type, props |-> elements[i].props]]

\* C31: reconciling a child list with null entries raises no error, and when
\* the walk of the cycle is complete the child chain of every work node that
\* was reconciled with a list holds exactly the non-null entries of the list,
\* in list order.
C31_NullEntriesSkipped ==
  /\ ~halted
  /\ nextUnitOfWork = Null =>
       \A p \in WorkNodes :
          fibers[p].type \notin FunctionTypes
            => Linked(p) = Entries(NonNull(fibers[p].children))

\* The scenario of a component that renders nothing: it is mounted next to a
\* Counter under a div, and the div is rendered again without children.
MenuEmpty ==
  {h("div", NoProps, <<h("Empty", NoProps, <<>>), h("Counter", NoProps, <<>>)>>),
   h("div", NoProps, <<>>)}
InitEmpty == Loaded /\ menu = MenuEmpty
SpecEmpty == InitEmpty /\ [][Next]_vars

\* C32: commitRoot never raises: the engine is never left halted with the
\* walk of a cycle complete and its tree not installed.
C32_CommitCompletes == ~(halted /\ nextUnitOfWork = Null /\ wipRoot # Null)

\* the host handle of the nearest work node, from a upwards, that owns one
RECURSIVE NearestHost(_)
NearestHost(a) ==
  IF a = Null THEN Null
  ELSE IF fibers[a].dom # Null THEN fibers[a].dom
  ELSE NearestHost(fibers[a].parent)
\* how often the latest commit appended host node d
Appends(d) == Cardinality({k \in DOMAIN obs.log : obs.log[k].op = "append" /\ obs.log[k].v = d})
\* the log holds the host operations of a commit of the tree of WorkRoot:
\* the commit has completed, or it has stopped at an exception
CommitLogged == WorkRoot # Null /\ (wipRoot = Null \/ (halted /\ nextUnitOfWork = Null))
\* the work nodes of the tree tagged PLACEMENT that own a host handle
Placed == {f \in WorkNodes \ {WorkRoot} : fibers[f].effectTag = "PLACEMENT" /\ fibers[f].dom # Null}

Styled(style, value) ==
  h("div", [Props("style", style) EXCEPT !["value"] = value],
    <<h("Counter", NoProps, <<>>)>>)
MenuStyle == {Styled(1, 1), Styled(2, 2), Styled(2, 1)}
InitStyle == Loaded /\ menu = MenuStyle
SpecStyle == InitStyle /\ [][Next]_vars

\* the host operations the latest commit made for key k of host node d
OpsOn(d, k) ==
  LET es == SelectSeq(obs.log, LAMBDA e : e.op \in HostOps /\ e.n = d /\ e.key = k)
  IN [i \in DOMAIN es |-> <<es[i].op, es[i].v>>]
\* the host operations that take key k from value old to value new
Due(k, old, new) ==
  IF old = new THEN <<>>
  ELSE IF isEvent(k)
  THEN (IF old # Absent THEN <<(<<"detach", old>>)>> ELSE <<>>)
       \o (IF new # Absent THEN <<(<<"attach", new>>)>> ELSE <<>>)
  ELSE IF new = Absent THEN <<(<<"clear", Absent>>)>>
  ELSE <<(<<"set", new>>)>>
\* the UPDATE-tagged work nodes of the committed tree that own a host handle
UpdatedHosts ==
  {f \in Below(currentRoot) : fibers[f].effectTag = "UPDATE" /\ fibers[f].dom # Null}

\* C34: after a commit, for every UPDATE-tagged host node and every key of the
\* attribute and listener mappings, the commit made exactly the operations the
\* change of the key calls for: none for an unchanged key, a clear for an
\* attribute that is gone, a set for an attribute added or changed, a detach
\* of the old listener and an attach of the new one for a listener removed,
\* added or replaced.
C34_ChangedKeysOnly ==
  JustCommitted =>
    \A f \in UpdatedHosts : \A k \in PropKeys :
       OpsOn(fibers[f].dom, k)
         = Due(k, fibers[fibers[f].alternate].props[k], fibers[f].props[k])

\* the slots the effect flush of the latest commit drained
Drained == {obs.log[i].n : i \in {j \in DOMAIN obs.log : obs.log[j].op = "effect"}}
\* the flush invoked the cleanup recorded on slot hk before the effect
\* callback of the slot
CleanupFirst(hk) ==
  \A i \in DOMAIN obs.log :
     (obs.log[i].op = "effect" /\ obs.log[i].n = hk) =>
        \E j \in 1..(i - 1) :
           /\ obs.log[j].op = "cleanup" /\ obs.log[j].key = "flush"
           /\ obs.log[j].n = hk /\ obs.log[j].v = obs.before[hk].cleanup

\* C35: after a commit, for every slot its effect flush drained: a cleanup
\* recorded on the slot before was invoked ahead of the effect callback; the
\* slot now records the cleanup the callback returned, a closure other than
\* the one recorded before, or none when the callback returned none; and the
\* recorded cleanup has not been invoked.
C35_CleanupReplaced ==
  JustCommitted =>
    \A hk \in Drained :
       /\ obs.before[hk].cleanup # Null => CleanupFirst(hk)
       /\ IF hooks[hk].effect.ret
          THEN hooks[hk].cleanup \notin {Null, obs.before[hk].cleanup}
          ELSE hooks[hk].cleanup = Null
       /\ hooks[hk].cleanup # Null => obs.cleanupCalls[hooks[hk].cleanup] = 0

\* ================================================= the media list (part_000)
\* the runtime of src/src/App.js plays no part in the two applications
runtime == <<fibers, hooks, doms, nextUnitOfWork, wipRoot, currentRoot, deletions,
             wipFiber, hookIndex, pendingEffects, halted, obs, menu, requests>>

Statuses == {"pending", "keep", "trash"}
\* the folders that may be selected: media files and one that is none
File(name, family) == [name |-> name, type |-> <<family, "x">>]
Folders ==
  {<<File(<<"a">>, "image"), File(<<"A", "b">>, "video"), File(<<"b">>, "image")>>,
   <<File(<<"b", "a">>, "image"), File(<<"n">>, "text"), File(<<"B">>, "image")>>}
Searches == {<<>>, <<"a">>, <<"B">>}

\* the media list becomes m, after handler op was given status
MediaBecomes(m, op, status) ==
  media' = [m EXCEPT !.last = [op |-> op, status |-> status]]

FolderSelect ==
  /\ \E fileList \in Folders :
        MediaBecomes(handleFolderSelect(media, fileList), "folder", "pending")
  /\ UNCHANGED <<runtime, review>>
StatusChange ==
  /\ \E i \in DOMAIN media.entries, nextStatus \in Statuses :
        MediaBecomes(handleStatusChange(media, media.entries[i].id, nextStatus),
                     "status", nextStatus)
  /\ UNCHANGED <<runtime, review>>
\* the bulk buttons are disabled while the filtered view is empty
Bulk ==
  /\ filteredEntries(media) # <<>>
  /\ \E nextStatus \in Statuses :
        MediaBecomes(handleBulk(media, nextStatus), "bulk", nextStatus)
  /\ UNCHANGED <<runtime, review>>
SetFilter ==
  /\ \E f \in Statuses \cup {"all"} :
        MediaBecomes([media EXCEPT !.filter = f], "filter", "pending")
  /\ UNCHANGED <<runtime, review>>
SetSearch ==
  /\ \E text \in Searches :
        MediaBecomes([media EXCEPT !.search = text], "search", "pending")
  /\ UNCHANGED <<runtime, review>>

NextMedia == FolderSelect \/ StatusChange \/ Bulk \/ SetFilter \/ SetSearch
InitMedia == Loaded /\ menu = {}
SpecMedia == InitMedia /\ [][NextMedia]_vars

\* C36: a bulk action sets the status of every entry of the filtered view
\* (the entries that match the status filter and the search text) to the
\* status it was given, and leaves every other entry as it was.
C36_BulkOnViewOnly ==
  [][(media'.last.op = "bulk" /\ media' # media) =>
       /\ DOMAIN media'.entries = DOMAIN media.entries
       /\ \A i \in DOMAIN media.entries :
             IF matches(media, media.entries[i])
             THEN media'.entries[i] = [media.entries[i] EXCEPT !.status = media'.last.status]
             ELSE media'.entries[i] = media.entries[i]]_vars

\* ============================================ the keyboard review (app.js)
\* the file lists that may be picked: media files and one that is none
Picks ==
  {<<File(<<"a">>, "image"), File(<<"b">>, "video"), File(<<"c">>, "image")>>,
   <<File(<<"d">>, "image"), File(<<"n">>, "text"), File(<<"e">>, "video")>>}

\* the review becomes r, after handler op ran
ReviewBecomes(r, op) == review' = [r EXCEPT !.trail = <<review.trail[2], op>>]

HandleFiles ==
  /\ review.loads < MaxLoads
  /\ \E picked \in Picks : ReviewBecomes(handleFiles(review, picked), "files")
  /\ UNCHANGED <<runtime, media>>
GoToNeighbor ==
  /\ \E direction \in {1, -1}, mode \in {"pending", "any"} :
        ReviewBecomes(goToNeighbor(review, direction, mode), "neighbor")
  /\ UNCHANGED <<runtime, media>>
\* k, d or a decision button, while there is an active item
HandleDecision ==
  /\ findIndex(review.items, review.activeId) >= 0
  /\ \E status \in {"keep", "delete"} :
        ReviewBecomes([handleDecision(review, status) EXCEPT
                         !.snap = [items |-> review.items, id |-> review.activeId],
                         !.fresh = TRUE],
                      "decide")
  /\ UNCHANGED <<runtime, media>>
\* u or the undo button
UndoLast ==
  /\ ReviewBecomes([undoLast(review) EXCEPT !.fresh = FALSE], "undo")
  /\ UNCHANGED <<runtime, media>>
ToggleThumb ==
  /\ \E i \in DOMAIN review.items :
        ReviewBecomes(toggleThumb(review, review.items[i].id), "thumb")
  /\ UNCHANGED <<runtime, media>>

NextReview == HandleFiles \/ GoToNeighbor \/ HandleDecision \/ UndoLast \/ ToggleThumb
InitReview == Loaded /\ menu = {}
SpecReview == InitReview /\ [][NextReview]_vars

\* the positions that follow position d in a list of n items, in list order,
\* wrapping around to the start
Following(d, n) == [j \in 1..(n - 1) |-> ((d - 1 + j) % n) + 1]
\* the first pending item among those that follow the item of id `id`
FirstPendingAfter(items, id) ==
  LET order == Following(findIndex(items, id) + 1, Len(items))
      j == CHOOSE k \in DOMAIN order :
             /\ items[order[k]].status = "pending"
             /\ \A l \in 1..(k - 1) : items[order[l]].status # "pending"
  IN items[order[j]].id

\* C37: after a decision on the active item that leaves a pending item, the
\* active item is the first pending item that follows the decided one in list
\* order, wrapping around to the start of the list.
C37_NextPendingFollows ==
  (review.trail[2] = "decide" /\ pendingOf(review.items) # <<>>)
    => review.activeId = FirstPendingAfter(review.items, review.lastAction[1].id)

\* what the review application itself holds: its state without the
\* observations
Held(r) ==
  [items |-> r.items, activeId |-> r.activeId, isExpanded |-> r.isExpanded,
   filter |-> r.filter, lastAction |-> r.lastAction]
\* the step is a call of undoLast
UndoStep == review' # review /\ review'.trail = <<review.trail[2], "undo">>

\* C38: an undoLast that follows a decision immediately leaves every item as
\* it was before the decision and the decided item active; an undoLast made
\* when no decision was made since the undoLast before (or ever) changes
\* nothing the application holds.
C38_UndoRestores ==
  [][UndoStep =>
       /\ review.trail[2] = "decide" =>
            /\ review'.items = review.snap.items
            /\ review'.activeId = review.snap.id
       /\ ~review.fresh => Held(review') = Held(review)]_vars

\* C38: a decision on an item that was already decided has been undone, and
\* the item has its earlier decision again
C38_Witness ==
  /\ review.trail = <<"decide", "undo">>
  /\ review.items = review.snap.items
  /\ review.activeId = review.snap.id
  /\ \E i \in DOMAIN review.items :
        review.items[i].id = review.snap.id /\ review.items[i].status # "pending"

\* C38: undoLast has run twice in a row
C38_SecondUndo == review.trail = <<"undo", "undo">> /\ review.items # <<>>

====
